---- MODULE Spec2Model ----
(***************************************************************************)
(* State-machine model of printful.py: convert_drive_url, upload_image,    *)
(* create_product_from_template and the batch driver process_file.         *)
(*                                                                         *)
(* Conventions.  A Python string is a sequence of lexical tokens (for      *)
(* URLs) or of characters (for file paths); substring search and split     *)
(* work on those sequences as str.__contains__ and str.split do.  An       *)
(* optional Python value is a set with at most one element: None is {}     *)
(* and the value x is {x}.  The remote service is the environment: every   *)
(* remote call draws its outcome nondeterministically; file identifiers    *)
(* handed out by the service are fresh positive integers.                  *)
(***************************************************************************)
EXTENDS Integers, Sequences, FiniteSets, TLC

\* ------------------------------------------------------------------ bounds
MaxRows == 2
MaxRetries == 3
MaxBackoff == 2
MaxGroupRows == 3
MaxUrlLen == 7

\* ------------------------------------------------------- program constants
DefaultRetries == 3
DefaultBackoff == 5

\* --------------------------------------------------------- Python values
None == {}
Some(x) == {x}

\* Python truthiness of an optional integer: None and 0 are falsy.
Truthy(v) == v # None /\ v # Some(0)

\* ------------------------------------------------------ string primitives
\* s[i..] starts with sub
MatchAt(s, sub, i) == 
    /\ i + Len(sub) - 1 <= Len(s)
    /\ \A k \in 1..Len(sub) : s[i + k - 1] = sub[k]

\* Python: sub in s
Contains(s, sub) == \E i \in 1..(Len(s) + 1) : MatchAt(s, sub, i)

\* index of the first occurrence of sub in s (0 when there is none)
Find(s, sub) ==
    IF Contains(s, sub)
    THEN CHOOSE i \in 1..(Len(s) + 1) :
            MatchAt(s, sub, i) /\ \A j \in 1..(i - 1) : ~MatchAt(s, sub, j)
    ELSE 0

\* Python: s.split(sep) for a non-empty separator
RECURSIVE Split(_, _)
Split(s, sep) ==
    LET i == Find(s, sep) IN
    IF i = 0 THEN <<s>>
    ELSE <<SubSeq(s, 1, i - 1)>> \o Split(SubSeq(s, i + Len(sep), Len(s)), sep)

\* Python: s.endswith(suffix)
EndsWith(s, suffix) ==
    /\ Len(suffix) <= Len(s)
    /\ SubSeq(s, Len(s) - Len(suffix) + 1, Len(s)) = suffix

\* ----------------------------------------------------- convert_drive_url
DriveHost == <<"drive.google.com">>
FileD == <<"file", "/", "d", "/">>
SlashFileD == <<"/", "file", "/", "d", "/">>
DirectPrefix == <<"https:", "/", "/", "drive.google.com", "/", "uc?export=download&id=">>

\* the rewrite done by appending a query parameter to the sharing link
convert_drive_url_append(url) ==
    IF Contains(url, DriveHost) /\ Contains(url, FileD)
    THEN [raised |-> FALSE, value |-> url \o <<"&export=download">>]
    ELSE [raised |-> FALSE, value |-> url]

\* Result of a call: raised = TRUE when the call ends in an exception.
convert_drive_url(url) ==
    IF Contains(url, DriveHost) /\ Contains(url, FileD)
    THEN LET parts == Split(url, SlashFileD) IN
         IF Len(parts) < 2
         THEN [raised |-> TRUE, value |-> <<>>]
         ELSE LET file_id == Split(parts[2], <<"/">>)[1] IN
              [raised |-> FALSE, value |-> DirectPrefix \o file_id]
    ELSE [raised |-> FALSE, value |-> url]

\* ------------------------------------------------------------ upload_image
\* An exception value: its type, the attempt that raised it and the URL its
\* message names.  The exceptions of lines 35-41 are built by the request
\* layer and by the body lookup, neither of which is given image_url: a
\* transport or status error names the endpoint of line 36, a KeyError
\* names no URL.
FilesEndpoint == <<"https:", "/", "/", "api.printful.com", "/", "files">>

Exc(kind, attempt) ==
    [kind |-> kind, attempt |-> attempt,
     url |-> IF kind \in {"ConnectionError", "HTTPError"} THEN FilesEndpoint ELSE <<>>]

NoErr == Exc("none", 0)

\* What one remote call can do: answer with a 2xx body carrying result.id,
\* or fail by a transport exception, a non-2xx status or a malformed body.
FailKinds == {"ConnectionError", "HTTPError", "KeyError"}
Outcomes == {"ok"} \cup FailKinds

\* The activation of upload_image after line 31 and the loop header.
upload_image_enter(image_url, retries, backoff) ==
    LET c == convert_drive_url(image_url) IN
    [image_url  |-> image_url,
     direct_url |-> c.value,
     retries    |-> retries,
     backoff    |-> backoff,
     attempt    |-> 1,
     status     |-> IF c.raised THEN "raised"
                    ELSE IF retries < 1 THEN "returned" ELSE "attempt",
     result     |-> None,
     err        |-> IF c.raised THEN Exc("IndexError", 0) ELSE NoErr,
     log        |-> <<>>]

Post(resp) == [ev |-> "post", secs |-> 0, resp |-> resp]
Sleep(secs) == [ev |-> "sleep", secs |-> secs, resp |-> None]

\* upload_image_attempt with a delay that grows with the attempt
upload_image_attempt_growing(u, outcome, id) ==
    IF outcome = "ok"
    THEN [u EXCEPT !.log = Append(@, Post(Some(id))),
                   !.result = Some(id),
                   !.status = "returned"]
    ELSE LET e == Exc(outcome, u.attempt) IN
         IF u.attempt < u.retries
         THEN [u EXCEPT !.log = @ \o <<Post(None), Sleep(u.backoff * u.attempt)>>,
                        !.err = e,
                        !.attempt = @ + 1]
         ELSE [u EXCEPT !.log = Append(@, Post(None)),
                        !.err = e,
                        !.status = "raised"]

\* upload_image_attempt with the loop taking one attempt too many
upload_image_attempt_extra(u, outcome, id) ==
    IF outcome = "ok"
    THEN [u EXCEPT !.log = Append(@, Post(Some(id))),
                   !.result = Some(id),
                   !.status = "returned"]
    ELSE LET e == Exc(outcome, u.attempt) IN
         IF u.attempt <= u.retries
         THEN [u EXCEPT !.log = @ \o <<Post(None), Sleep(u.backoff)>>,
                        !.err = e,
                        !.attempt = @ + 1]
         ELSE [u EXCEPT !.log = Append(@, Post(None)),
                        !.err = e,
                        !.status = "raised"]

\* One iteration of the retry loop (lines 32-50); id is the identifier the
\* service hands out when outcome = "ok".
upload_image_attempt(u, outcome, id) ==
    IF outcome = "ok"
    THEN [u EXCEPT !.log = Append(@, Post(Some(id))),
                   !.result = Some(id),
                   !.status = "returned"]
    ELSE LET e == Exc(outcome, u.attempt) IN
         IF u.attempt < u.retries
         THEN [u EXCEPT !.log = @ \o <<Post(None), Sleep(u.backoff)>>,
                        !.err = e,
                        !.attempt = @ + 1]
         ELSE [u EXCEPT !.log = Append(@, Post(None)),
                        !.err = e,
                        !.status = "raised"]

Idle == [image_url |-> <<>>, direct_url |-> <<>>, retries |-> 0, backoff |-> 0,
         attempt |-> 0, status |-> "idle", result |-> None, err |-> NoErr,
         log |-> <<>>]

\* ------------------------------------------- create_product_from_template
\* lines 59-74: one sync_variant per entry of variant_data
files_of(variant) ==
    LET files == <<[type |-> "front", id |-> variant.front_file_id],
                   [type |-> "back", id |-> variant.back_file_id]>> IN
    IF Truthy(variant.label_file_id)
    THEN Append(files, [type |-> "inside_label", id |-> variant.label_file_id])
    ELSE files

sync_variants_of(variant_data) ==
    [i \in 1..Len(variant_data) |->
        [variant_id   |-> variant_data[i].variant_id,
         retail_price |-> variant_data[i].retail_price,
         files        |-> files_of(variant_data[i])]]

\* Python: str(n) for n >= 0, as a sequence of digit characters
Digit(d) == <<"0", "1", "2", "3", "4", "5", "6", "7", "8", "9">>[d + 1]

RECURSIVE str(_)
str(n) == IF n < 10 THEN <<Digit(n)>> ELSE str(n \div 10) \o <<Digit(n % 10)>>

\* lines 76-84
payload_of(template_id, variant_data, product_name) ==
    [sync_product  |-> [name        |-> "Test Product",
                        is_visible  |-> TRUE,
                        external_id |-> <<product_name, "-">> \o str(template_id)],
     sync_variants |-> sync_variants_of(variant_data),
     title         |-> product_name]

\* lines 86-98.  requests.post (line 87) stands before the try block, so a
\* transport exception leaves the function; raise_for_status and the read
\* of result.id are inside it.  product_id is the id the service assigns
\* when it answers 2xx.
create_product_from_template(template_id, variant_data, product_name, outcome, product_id) ==
    LET payload == payload_of(template_id, variant_data, product_name) IN
    IF outcome = "ConnectionError"
    THEN [payload |-> payload, outcome |-> outcome, raised |-> TRUE, value |-> None]
    ELSE IF outcome = "ok"
    THEN [payload |-> payload, outcome |-> outcome, raised |-> FALSE,
          value |-> Some([result |-> [id |-> product_id]])]
    ELSE [payload |-> payload, outcome |-> outcome, raised |-> FALSE, value |-> None]

\* ------------------------------------------------------------ input data
\* A spreadsheet cell of a numeric column: an integer, or a value int()
\* rejects (text, or the NaN of an empty cell).
IntCell(n) == [kind |-> "int", v |-> n]
BadCell == [kind |-> "bad", v |-> 0]

\* Python: int(cell); None stands for the ValueError
int(cell) == IF cell.kind = "int" THEN Some(cell.v) ELSE None

\* The optional label column: absent (row.get gives None), an empty cell
\* (NaN), or a string.
LabelMissing == [kind |-> "none", s |-> <<>>]
LabelNaN == [kind |-> "nan", s |-> <<>>]
LabelStr(s) == [kind |-> "str", s |-> s]

\* Python truthiness of the label value: None and "" are falsy, NaN is truthy
label_truthy(label_url) ==
    \/ label_url.kind = "nan"
    \/ label_url.kind = "str" /\ label_url.s # <<>>

\* notna taking the NaN of an empty cell for a value
notna_nan(label_url) == label_url.kind \in {"str", "nan"}

\* pd.notna
notna(label_url) == label_url.kind = "str"

PlainUrl == <<"https:", "/", "/", "cdn.example.com", "/", "a.png">>
ShareUrl == <<"https:", "/", "/", "drive.google.com", "/", "file", "/", "d", "/", "ID1", "/", "view">>
BrokenUrl == <<"drive.google.com", "?", "file", "/", "d", "/", "ID1">>

BaseRow == [name |-> "Tee", pid |-> IntCell(100), variant |-> IntCell(1),
            front |-> PlainUrl, back |-> PlainUrl, label |-> LabelMissing]

RowDomain ==
    { BaseRow,
      [BaseRow EXCEPT !.label = LabelStr(PlainUrl)],
      [BaseRow EXCEPT !.label = LabelNaN],
      [BaseRow EXCEPT !.label = LabelStr(<<>>)],
      [BaseRow EXCEPT !.name = "Mug", !.variant = IntCell(2), !.front = ShareUrl],
      [BaseRow EXCEPT !.pid = IntCell(200), !.label = LabelStr(ShareUrl)],
      [BaseRow EXCEPT !.back = BrokenUrl],
      [BaseRow EXCEPT !.variant = BadCell],
      [BaseRow EXCEPT !.pid = BadCell] }

Tables == UNION { [1..n -> RowDomain] : n \in 0..MaxRows }

CsvPath == <<"p", ".", "c", "s", "v">>
XlsxPath == <<"p", ".", "x", "l", "s", "x">>
TxtPath == <<"c", "s", "v", ".", "t", "x", "t">>
Paths == {CsvPath, XlsxPath, TxtPath}

\* the extension test looking for the extension anywhere in the path
Supported_anywhere(path) ==
    \/ Contains(path, <<"c", "s", "v">>)
    \/ Contains(path, <<"x", "l", "s", "x">>)

\* lines 105-110: the extension test
Supported(path) ==
    \/ EndsWith(path, <<".", "c", "s", "v">>)
    \/ EndsWith(path, <<".", "x", "l", "s", "x">>)

\* lines 113-116: defaultdict(list) keyed by (name, int(pid)), in insertion
\* order; a group holds the indexes of its rows in the table.
KeyIndex(groups, key) ==
    IF \E j \in 1..Len(groups) : groups[j].key = key
    THEN CHOOSE j \in 1..Len(groups) : groups[j].key = key
    ELSE 0

\* the grouping keyed by the product name alone
RECURSIVE GroupRows_by_name(_, _, _)
GroupRows_by_name(t, i, groups) ==
    IF i > Len(t) THEN groups
    ELSE LET key == <<t[i].name, CHOOSE n \in int(t[i].pid) : TRUE>>
             j == IF \E k \in 1..Len(groups) : groups[k].key[1] = key[1]
                  THEN CHOOSE k \in 1..Len(groups) : groups[k].key[1] = key[1]
                  ELSE 0 IN
         IF j = 0
         THEN GroupRows_by_name(t, i + 1, Append(groups, [key |-> key, rows |-> <<i>>]))
         ELSE GroupRows_by_name(t, i + 1, [groups EXCEPT ![j].rows = Append(@, i)])

RECURSIVE GroupRows(_, _, _)
GroupRows(t, i, groups) ==
    IF i > Len(t) THEN groups
    ELSE LET key == <<t[i].name, CHOOSE n \in int(t[i].pid) : TRUE>>
             j == KeyIndex(groups, key) IN
         IF j = 0
         THEN GroupRows(t, i + 1, Append(groups, [key |-> key, rows |-> <<i>>]))
         ELSE GroupRows(t, i + 1, [groups EXCEPT ![j].rows = Append(@, i)])

\* ------------------------------------------------------------------ state
VARIABLES
    file_path,      \* argument of process_file
    table,          \* df: the rows read from the file
    pc,             \* position of process_file
    error,          \* the exception that ended the run, "" when none
    grouped,        \* the groups, in insertion order
    gi, ri,         \* current group, current row within the group
    variant_data,   \* variants prepared for the current group
    front_id, back_id,
    up,             \* the running activation of upload_image
    nextId,         \* remote service: next file identifier
    requests,       \* remote service: product-creation calls received
    skipped,        \* groups for which the skip message was printed
    history,        \* per table row: uploads started, ids the service returned, fate
    variant_rows,   \* table row behind each entry of variant_data
    remote_called,  \* TRUE once any remote call has been made
    conv,           \* convert_drive_url called on its own: argument and results
    calls,          \* remote service: the requests received, in order, a
                    \* request repeated in a row listed once
    row_posts       \* file registrations attempted for the row in progress

vars == <<file_path, table, pc, error, grouped, gi, ri, variant_data, front_id,
          back_id, up, nextId, requests, skipped, history, variant_rows,
          remote_called, conv, calls, row_posts>>

NoConv == [arg |-> <<>>, rets |-> <<>>]

NoHistory == [started |-> {}, front |-> None, back |-> None, label |-> None,
              fate |-> "pending"]

Init ==
    /\ file_path \in Paths
    /\ table = <<>>
    /\ pc = "start"
    /\ error = ""
    /\ grouped = <<>>
    /\ gi = 1
    /\ ri = 1
    /\ variant_data = <<>>
    /\ front_id = None
    /\ back_id = None
    /\ up = Idle
    /\ nextId = 1
    /\ requests = <<>>
    /\ skipped = {}
    /\ history = <<>>
    /\ variant_rows = <<>>
    /\ remote_called = FALSE
    /\ calls = <<>>
    /\ row_posts = 0
    /\ conv = NoConv

CurRows == grouped[gi].rows
CurIdx == CurRows[ri]
CurRow == table[CurIdx]

unchanged_remote == UNCHANGED <<nextId, requests, remote_called, calls>>

\* the service's log after it received request c
Logged(c) ==
    IF calls # <<>> /\ calls[Len(calls)] = c THEN calls ELSE Append(calls, c)

FileCall(g, r, ref) == [kind |-> "file", group |-> g, row |-> r, ref |-> ref]
ProductCall(g) == [kind |-> "product", group |-> g, row |-> 0, ref |-> ""]
unchanged_input == UNCHANGED <<file_path, table, grouped, error, conv>>

\* lines 105-116: load the file and group the rows
LoadFile ==
    /\ pc = "start"
    /\ IF ~Supported(file_path)
       THEN /\ pc' = "aborted"
            /\ error' = "ValueError: Unsupported file format"
            /\ UNCHANGED <<table, grouped, history>>
       ELSE \E t \in Tables :
            /\ table' = t
            /\ history' = [i \in 1..Len(t) |-> NoHistory]
            /\ IF \E i \in 1..Len(t) : int(t[i].pid) = None
               THEN /\ pc' = "aborted"
                    /\ error' = "ValueError: int()"
                    /\ UNCHANGED grouped
               ELSE /\ pc' = "row"
                    /\ grouped' = GroupRows(t, 1, <<>>)
                    /\ UNCHANGED error
    /\ UNCHANGED <<file_path, gi, ri, variant_data, front_id, back_id, up,
                   nextId, requests, skipped, variant_rows, remote_called, conv,
                   calls, row_posts>>

\* line 120-122: next row of the group, call upload_image(row["FRONT DESIGN"])
BeginRow ==
    /\ pc = "row"
    /\ gi <= Len(grouped)
    /\ ri <= Len(CurRows)
    /\ up' = upload_image_enter(CurRow.front, DefaultRetries, DefaultBackoff)
    /\ history' = [history EXCEPT ![CurIdx].started = @ \cup {"front"}]
    /\ pc' = "front"
    /\ row_posts' = 0
    /\ unchanged_remote
    /\ unchanged_input
    /\ UNCHANGED <<gi, ri, variant_data, front_id, back_id, skipped, variant_rows>>

\* lines 32-50 inside a row's chain: one attempt of the running upload
UploadAttempt ==
    /\ pc \in {"front", "back", "label"}
    /\ up.status = "attempt"
    /\ \E outcome \in Outcomes :
        /\ up' = upload_image_attempt(up, outcome, nextId)
        /\ nextId' = IF outcome = "ok" THEN nextId + 1 ELSE nextId
        /\ history' = IF outcome = "ok"
                      THEN [history EXCEPT ![CurIdx][pc] = Some(nextId)]
                      ELSE history
    /\ remote_called' = TRUE
    /\ calls' = Logged(FileCall(gi, CurIdx, pc))
    /\ row_posts' = row_posts + 1
    /\ unchanged_input
    /\ UNCHANGED <<pc, gi, ri, variant_data, front_id, back_id, requests,
                   skipped, variant_rows>>

\* the row's handler leaving the loop over the rows (break for continue)
skip_row_break ==
    /\ history' = [history EXCEPT ![CurIdx].fate = "skipped"]
    /\ ri' = Len(CurRows) + 1
    /\ pc' = "row"
    /\ up' = Idle
    /\ UNCHANGED <<variant_data, variant_rows>>

\* lines 140-144: the row's handler
skip_row ==
    /\ history' = [history EXCEPT ![CurIdx].fate = "skipped"]
    /\ ri' = ri + 1
    /\ pc' = "row"
    /\ up' = Idle
    /\ UNCHANGED <<variant_data, variant_rows>>

\* append_variant storing the front identifier as the back file
append_variant_front_twice(back, label_id) ==
    IF int(CurRow.variant) = None
    THEN skip_row
    ELSE /\ variant_data' = Append(variant_data,
                [variant_id    |-> CHOOSE n \in int(CurRow.variant) : TRUE,
                 front_file_id |-> front_id,
                 back_file_id  |-> front_id,
                 label_file_id |-> label_id,
                 retail_price  |-> "29.99"])
         /\ variant_rows' = Append(variant_rows, CurIdx)
         /\ history' = [history EXCEPT ![CurIdx].fate = "appended"]
         /\ ri' = ri + 1
         /\ pc' = "row"
         /\ up' = Idle

\* lines 131-139: build the variant; int(row["Variant"]) may raise
append_variant(back, label_id) ==
    IF int(CurRow.variant) = None
    THEN skip_row
    ELSE /\ variant_data' = Append(variant_data,
                [variant_id    |-> CHOOSE n \in int(CurRow.variant) : TRUE,
                 front_file_id |-> front_id,
                 back_file_id  |-> back,
                 label_file_id |-> label_id,
                 retail_price  |-> "29.99"])
         /\ variant_rows' = Append(variant_rows, CurIdx)
         /\ history' = [history EXCEPT ![CurIdx].fate = "appended"]
         /\ ri' = ri + 1
         /\ pc' = "row"
         /\ up' = Idle

\* the back upload started whether or not the front upload raised
AfterFront_ignoring_failure ==
    /\ pc = "front"
    /\ up.status \in {"returned", "raised"}
    /\ front_id' = up.result
    /\ up' = upload_image_enter(CurRow.back, DefaultRetries, DefaultBackoff)
    /\ history' = [history EXCEPT ![CurIdx].started = @ \cup {"back"}]
    /\ pc' = "back"
    /\ unchanged_remote
    /\ unchanged_input
    /\ UNCHANGED <<gi, ri, variant_data, back_id, skipped, variant_rows,
                   row_posts>>

\* line 122 returns, line 123 calls upload_image(row["BACK DESIGN"])
AfterFront ==
    /\ pc = "front"
    /\ up.status = "returned"
    /\ front_id' = up.result
    /\ up' = upload_image_enter(CurRow.back, DefaultRetries, DefaultBackoff)
    /\ history' = [history EXCEPT ![CurIdx].started = @ \cup {"back"}]
    /\ pc' = "back"
    /\ unchanged_remote
    /\ unchanged_input
    /\ UNCHANGED <<gi, ri, variant_data, back_id, skipped, variant_rows,
                   row_posts>>

\* line 123 returns; lines 124-129 decide on the label upload
AfterBack ==
    /\ pc = "back"
    /\ up.status = "returned"
    /\ back_id' = up.result
    /\ LET label_url == CurRow.label IN
       IF label_truthy(label_url) /\ notna(label_url)
       THEN /\ up' = upload_image_enter(label_url.s, DefaultRetries, DefaultBackoff)
            /\ history' = [history EXCEPT ![CurIdx].started = @ \cup {"label"}]
            /\ pc' = "label"
            /\ UNCHANGED <<ri, variant_data, variant_rows>>
       ELSE append_variant(up.result, None)
    /\ unchanged_remote
    /\ unchanged_input
    /\ UNCHANGED <<gi, front_id, skipped, row_posts>>

\* line 126 returns
AfterLabel ==
    /\ pc = "label"
    /\ up.status = "returned"
    /\ append_variant(back_id, up.result)
    /\ unchanged_remote
    /\ unchanged_input
    /\ UNCHANGED <<gi, front_id, back_id, skipped, row_posts>>

\* an upload raised: lines 140-144
SkipRow ==
    /\ pc \in {"front", "back", "label"}
    /\ up.status = "raised"
    /\ skip_row
    /\ unchanged_remote
    /\ unchanged_input
    /\ UNCHANGED <<gi, front_id, back_id, skipped, row_posts>>

next_group ==
    /\ gi' = gi + 1
    /\ ri' = 1
    /\ variant_data' = <<>>
    /\ variant_rows' = <<>>

\* the test of line 146 letting every group through
has_variants_always(vd) == TRUE

\* line 146: if variant_data
has_variants(vd) == vd # <<>>

\* the driver preparing the group's rows again when the call gave no result
after_create_redo(r) ==
    IF r.raised
    THEN /\ pc' = "aborted"
         /\ error' = r.outcome
         /\ UNCHANGED <<gi, ri, variant_data, variant_rows>>
    ELSE IF r.value = None
    THEN /\ ri' = 1
         /\ variant_data' = <<>>
         /\ variant_rows' = <<>>
         /\ UNCHANGED <<pc, error, gi>>
    ELSE /\ next_group
         /\ UNCHANGED <<pc, error>>

\* the driver calling again when the call gave no result
after_create_retry(r) ==
    IF r.raised
    THEN /\ pc' = "aborted"
         /\ error' = r.outcome
         /\ UNCHANGED <<gi, ri, variant_data, variant_rows>>
    ELSE IF r.value = None
    THEN UNCHANGED <<pc, error, gi, ri, variant_data, variant_rows>>
    ELSE /\ next_group
         /\ UNCHANGED <<pc, error>>

\* line 147 ends: an exception leaves process_file, a return value is
\* dropped and the loop goes on to the next group
after_create(r) ==
    IF r.raised
    THEN /\ pc' = "aborted"
         /\ error' = r.outcome
         /\ UNCHANGED <<gi, ri, variant_data, variant_rows>>
    ELSE /\ next_group
         /\ UNCHANGED <<pc, error>>

\* lines 146-147: the group has variants, create the product
CreateProduct ==
    /\ pc = "row"
    /\ gi <= Len(grouped)
    /\ ri > Len(CurRows)
    /\ has_variants(variant_data)
    /\ \E outcome \in Outcomes :
        LET product_name == grouped[gi].key[1]
            template_id == grouped[gi].key[2]
            r == create_product_from_template(template_id, variant_data,
                        product_name, outcome, Len(requests) + 1) IN
        /\ requests' = Append(requests,
                [group |-> gi, rows |-> variant_rows, payload |-> r.payload,
                 outcome |-> r.outcome, raised |-> r.raised, value |-> r.value])
        /\ after_create(r)
    /\ remote_called' = TRUE
    /\ calls' = Logged(ProductCall(gi))
    /\ UNCHANGED <<file_path, table, grouped, front_id, back_id, up, nextId,
                   skipped, history, conv, row_posts>>

\* lines 148-151: no variant could be prepared
SkipGroup ==
    /\ pc = "row"
    /\ gi <= Len(grouped)
    /\ ri > Len(CurRows)
    /\ ~has_variants(variant_data)
    /\ skipped' = skipped \cup {gi}
    /\ next_group
    /\ unchanged_remote
    /\ unchanged_input
    /\ UNCHANGED <<pc, front_id, back_id, up, history, row_posts>>

\* line 118: the loop over the groups is exhausted
Finish ==
    /\ pc = "row"
    /\ gi > Len(grouped)
    /\ pc' = "done"
    /\ unchanged_remote
    /\ unchanged_input
    /\ UNCHANGED <<gi, ri, variant_data, front_id, back_id, up, skipped,
                   history, variant_rows, row_posts>>

Next ==
    \/ LoadFile
    \/ BeginRow
    \/ UploadAttempt
    \/ AfterFront
    \/ AfterBack
    \/ AfterLabel
    \/ SkipRow
    \/ CreateProduct
    \/ SkipGroup
    \/ Finish

Spec == Init /\ [][Next]_vars

\* ------------------------------------------- upload_image called on its own
\* A caller invokes upload_image(image_url, retries, backoff) with any
\* retry bound, and the service answers each attempt as it likes.
Urls == {PlainUrl, ShareUrl, BrokenUrl}

InitUpload ==
    /\ file_path = <<>>
    /\ table = <<>>
    /\ pc = "upload"
    /\ error = ""
    /\ grouped = <<>>
    /\ gi = 1
    /\ ri = 1
    /\ variant_data = <<>>
    /\ front_id = None
    /\ back_id = None
    /\ \E image_url \in Urls, retries \in (-1)..MaxRetries, backoff \in 1..MaxBackoff :
          up = upload_image_enter(image_url, retries, backoff)
    /\ nextId \in 1..2
    /\ requests = <<>>
    /\ skipped = {}
    /\ history = <<>>
    /\ variant_rows = <<>>
    /\ remote_called = FALSE
    /\ calls = <<>>
    /\ row_posts = 0
    /\ conv = NoConv

\* lines 32-50: one attempt
UploadCall ==
    /\ pc = "upload"
    /\ up.status = "attempt"
    /\ \E outcome \in Outcomes :
        /\ up' = upload_image_attempt(up, outcome, nextId)
        /\ nextId' = IF outcome = "ok" THEN nextId + 1 ELSE nextId
    /\ remote_called' = TRUE
    /\ UNCHANGED <<file_path, table, pc, error, grouped, gi, ri, variant_data,
                   front_id, back_id, requests, skipped, history, variant_rows, conv,
                   calls, row_posts>>

NextUpload == UploadCall

SpecUpload == InitUpload /\ [][NextUpload]_vars

\* ------------------------------------------------------------- vocabulary
Range(f) == {f[i] : i \in DOMAIN f}

\* the row has a present, non-blank label reference
HasLabel(row) == row.label.kind = "str" /\ row.label.s # <<>>

\* the service returned an identifier for every upload the row needs
UploadsOk(r) ==
    /\ history[r].front # None
    /\ history[r].back # None
    /\ HasLabel(table[r]) => history[r].label # None

\* every step of the row's chain went through
ChainOk(r) == UploadsOk(r) /\ table[r].variant.kind = "int"

\* the row's fate is settled and some step of its chain failed
ChainFailed(r) == history[r].fate # "pending" /\ ~ChainOk(r)

CallsFor(g) == {i \in 1..Len(requests) : requests[i].group = g}

\* the driver has left group g, by moving on or by an exception in its call
GroupOver(g) == g < gi \/ (pc = "aborted" /\ g = gi /\ grouped # <<>>)

FileTypes(files) == [k \in 1..Len(files) |-> files[k].type]

IsPost(e) == e.ev = "post"
IsSleep(e) == e.ev = "sleep"
Posts == SelectSeq(up.log, IsPost)
Sleeps == SelectSeq(up.log, IsSleep)

\* ------------------------------------------------------------------ claims

\* C1: a group none of whose rows produced a variant never causes a
\* product-creation call, and no product-creation call carries an empty
\* variant list.
C1_NoEmptyProduct ==
    \A i \in 1..Len(requests) :
        /\ Len(requests[i].payload.sync_variants) >= 1
        /\ \E r \in Range(grouped[requests[i].group].rows) : ChainOk(r)

\* a run ended in which one group was skipped with all its rows failed after
\* remote calls, and another group was submitted
C1_Witness ==
    /\ pc = "done"
    /\ requests # <<>>
    /\ \E g \in skipped :
         \A r \in Range(grouped[g].rows) :
            history[r].started # {} /\ ChainFailed(r)

\* C2: every variant of a product-creation request comes from a row whose
\* front, back and (when the row has a label) label uploads all returned an
\* identifier, and carries exactly those identifiers; a row with a failed
\* upload is in no request.
C2_VariantsCarryOwnIds ==
    \A i \in 1..Len(requests) :
        LET q == requests[i]
            sv == q.payload.sync_variants IN
        /\ Len(sv) = Len(q.rows)
        /\ \A k \in 1..Len(sv) :
            LET r == q.rows[k]
                files == sv[k].files IN
            /\ UploadsOk(r)
            /\ files[1] = [type |-> "front", id |-> history[r].front]
            /\ files[2] = [type |-> "back", id |-> history[r].back]
            /\ \A n \in 3..Len(files) :
                  files[n] = [type |-> "inside_label", id |-> history[r].label]
            /\ \A n \in 1..Len(files) : Cardinality(files[n].id) = 1
        /\ \A r \in 1..Len(table) :
            (history[r].fate # "pending" /\ ~UploadsOk(r)) => r \notin Range(q.rows)

\* a request with a variant of three files, sent while another row of the
\* same group had lost its back upload
C2_Witness ==
    \E i \in 1..Len(requests) :
        /\ \E k \in 1..Len(requests[i].payload.sync_variants) :
              Len(requests[i].payload.sync_variants[k].files) = 3
        /\ \E r \in Range(grouped[requests[i].group].rows) :
              /\ history[r].front # None
              /\ "back" \in history[r].started
              /\ history[r].back = None
              /\ history[r].fate = "skipped"

RowSucceeded(r) == ChainOk(r)

\* C3: a failure in one row's chain skips only that row: all rows of a group
\* the driver has left were processed, and the group's request holds exactly
\* the rows whose chain succeeded, in order.
C3_OnlyFailedRowSkipped ==
    /\ \A g \in 1..Len(grouped) :
          GroupOver(g) =>
             \A r \in Range(grouped[g].rows) :
                /\ history[r].fate # "pending"
                /\ history[r].fate = "appended" <=> ChainOk(r)
    /\ \A i \in 1..Len(requests) :
          requests[i].rows = SelectSeq(grouped[requests[i].group].rows, RowSucceeded)

\* two rows in one group, the back upload of the first exhausted its
\* retries, and the request holds exactly the second row
C3_Witness ==
    \E i \in 1..Len(requests) :
        LET rows == grouped[requests[i].group].rows IN
        /\ Len(rows) = 2
        /\ history[rows[1]].front # None
        /\ "back" \in history[rows[1]].started
        /\ history[rows[1]].back = None
        /\ table[rows[1]].back = PlainUrl
        /\ requests[i].rows = <<rows[2]>>
        /\ Len(requests[i].payload.sync_variants) = 1

\* C4: once the rows are loaded and grouped no failure aborts the run: when
\* the run has ended, every group had its product-creation call or its skip
\* message.
C4_EveryGroupReached ==
    pc \in {"done", "aborted"} =>
        \A g \in 1..Len(grouped) : g \in skipped \/ CallsFor(g) # {}

\* C5: create_product_from_template never propagates a failure of the
\* product-creation call: it returns None when the call raises, answers
\* non-2xx or answers without result.id, and the decoded body otherwise.
C5_CreateNeverPropagates ==
    \A i \in 1..Len(requests) :
        /\ ~requests[i].raised
        /\ requests[i].outcome = "ok" <=> requests[i].value # None

\* C6: a group with at least one prepared variant causes exactly one
\* product-creation call, whether the call succeeds or fails, a group
\* without one causes none, and no group is ever submitted twice.
C6_OneCallPerGroup ==
    \A g \in 1..Len(grouped) :
        /\ Cardinality(CallsFor(g)) <= 1
        /\ GroupOver(g) =>
              Cardinality(CallsFor(g)) =
                 IF \E r \in Range(grouped[g].rows) : ChainOk(r) THEN 1 ELSE 0

\* the run ended after a failed product-creation call for one group and a
\* successful one for a later group
C6_Witness ==
    /\ pc = "done"
    /\ \E i, j \in 1..Len(requests) :
          /\ i < j
          /\ requests[i].value = None
          /\ requests[j].value # None

\* C7: when the remote call fails on attempts 1..N-1 and succeeds on
\* attempt N (1 <= N <= retries), upload_image returns the identifier of
\* attempt N after exactly N calls, none after the success, and exactly
\* N-1 delays.
C7_SuccessOnAttemptN ==
    (Posts # <<>> /\ Posts[Len(Posts)].resp # None) =>
        LET N == Len(Posts) IN
        /\ up.status = "returned"
        /\ up.result = Posts[N].resp
        /\ N <= up.retries
        /\ \A k \in 1..(N - 1) : Posts[k].resp = None
        /\ Len(Sleeps) = N - 1
        /\ up.log[Len(up.log)] = Posts[N]

\* upload_image returned on the second of three allowed attempts
C7_Witness ==
    /\ pc = "upload"
    /\ up.status = "returned"
    /\ up.retries = 3
    /\ Len(Posts) = 2
    /\ Len(Sleeps) = 1

\* C8: when the remote call fails on every attempt, exactly `retries`
\* attempts are made and then an error is raised to the caller that is the
\* last failure and names the original image reference.
C8_ExhaustedRaises ==
    (/\ pc = "upload"
     /\ up.status \in {"returned", "raised"}
     /\ up.err.kind # "IndexError"
     /\ \A k \in 1..Len(Posts) : Posts[k].resp = None) =>
        /\ Len(Posts) = up.retries
        /\ up.status = "raised"
        /\ up.err.attempt = up.retries
        /\ up.err.url = up.image_url

\* C9: a path whose extension is neither .csv nor .xlsx makes process_file
\* fail with the configuration error, and no remote call is made before or
\* after.
C9_UnsupportedNoRemote ==
    (pc # "upload" /\ ~(\/ EndsWith(file_path, <<".", "c", "s", "v">>)
                        \/ EndsWith(file_path, <<".", "x", "l", "s", "x">>))) =>
        /\ ~remote_called
        /\ requests = <<>>
        /\ nextId = 1
        /\ pc \in {"start", "aborted"}
        /\ pc = "aborted" => error = "ValueError: Unsupported file format"

\* process_file failed on the unsupported path
C9_Witness ==
    /\ file_path = TxtPath
    /\ pc = "aborted"
    /\ error = "ValueError: Unsupported file format"

\* C10: a variant from a row with a present, non-blank label has exactly the
\* files front, back, inside_label; a variant from a row whose label is
\* missing or blank has exactly front, back, and no label upload was
\* started for that row.
C10_LabelFiles ==
    \A i \in 1..Len(requests) :
        \A k \in 1..Len(requests[i].rows) :
            LET r == requests[i].rows[k]
                types == FileTypes(requests[i].payload.sync_variants[k].files) IN
            IF HasLabel(table[r])
            THEN types = <<"front", "back", "inside_label">>
            ELSE /\ types = <<"front", "back">>
                 /\ "label" \notin history[r].started

\* one request with a labelled row (3 files) and a row whose label cell is
\* empty (2 files)
C10_Witness ==
    \E i \in 1..Len(requests) :
        \E k, m \in 1..Len(requests[i].rows) :
            /\ table[requests[i].rows[k]].label = LabelStr(PlainUrl)
            /\ Len(requests[i].payload.sync_variants[k].files) = 3
            /\ table[requests[i].rows[m]].label = LabelNaN
            /\ Len(requests[i].payload.sync_variants[m].files) = 2

\* ------------------------------------------- the grouping step on its own
\* lines 113-116 applied to any table of up to MaxGroupRows rows over two
\* product names and two product identifiers (and a cell int() rejects).
GroupRowDomain ==
    { [BaseRow EXCEPT !.name = n, !.pid = c] :
         n \in {"Tee", "Mug"}, c \in {IntCell(100), IntCell(200), BadCell} }

InitGroup ==
    /\ file_path = CsvPath
    /\ table \in UNION { [1..n -> GroupRowDomain] : n \in 0..MaxGroupRows }
    /\ pc = "group"
    /\ error = ""
    /\ grouped = <<>>
    /\ gi = 1
    /\ ri = 1
    /\ variant_data = <<>>
    /\ front_id = None
    /\ back_id = None
    /\ up = Idle
    /\ nextId = 1
    /\ requests = <<>>
    /\ skipped = {}
    /\ history = <<>>
    /\ variant_rows = <<>>
    /\ remote_called = FALSE
    /\ calls = <<>>
    /\ row_posts = 0
    /\ conv = NoConv

\* lines 113-116
GroupTable ==
    /\ pc = "group"
    /\ IF \E i \in 1..Len(table) : int(table[i].pid) = None
       THEN /\ pc' = "aborted"
            /\ error' = "ValueError: int()"
            /\ UNCHANGED grouped
       ELSE /\ pc' = "grouped"
            /\ grouped' = GroupRows(table, 1, <<>>)
            /\ UNCHANGED error
    /\ UNCHANGED <<file_path, table, gi, ri, variant_data, front_id, back_id, up,
                   nextId, requests, skipped, history, variant_rows, remote_called,
                   conv, calls, row_posts>>

NextGroup == GroupTable

SpecGroup == InitGroup /\ [][NextGroup]_vars

GroupsOf(i) == {g \in 1..Len(grouped) : i \in Range(grouped[g].rows)}

\* C11: two rows are in the same group exactly when they have the same
\* product name and the same product identifier, whatever the order of the
\* rows; every row is in exactly one group, once, and the rows of a group
\* keep their source order.
C11_Grouping ==
    pc = "grouped" =>
        /\ \A i, j \in 1..Len(table) :
              (GroupsOf(i) \cap GroupsOf(j) # {}) <=>
                 (table[i].name = table[j].name /\ table[i].pid = table[j].pid)
        /\ \A i \in 1..Len(table) : Cardinality(GroupsOf(i)) = 1
        /\ \A g \in 1..Len(grouped) :
              /\ Range(grouped[g].rows) \subseteq 1..Len(table)
              /\ \A a, b \in 1..Len(grouped[g].rows) :
                    a < b => grouped[g].rows[a] < grouped[g].rows[b]

\* three rows grouped: the first and the third share name and identifier,
\* the second differs from them in the identifier only
C11_Witness ==
    /\ pc = "grouped"
    /\ Len(table) = 3
    /\ table[1] = table[3]
    /\ table[2].name = table[1].name
    /\ table[2].pid # table[1].pid
    /\ Len(grouped) = 2
    /\ grouped[1].rows = <<1, 3>>
    /\ grouped[2].rows = <<2>>

\* ------------------------------------------ convert_drive_url on its own
\* Every string of up to MaxUrlLen tokens over the tokens the function
\* looks for and one other token; the function is applied to the argument
\* and then to its own result.
UrlTokens == {"drive.google.com", "/", "file", "d", "x"}

InitUrl ==
    /\ file_path = <<>>
    /\ table = <<>>
    /\ pc = "convert"
    /\ error = ""
    /\ grouped = <<>>
    /\ gi = 1
    /\ ri = 1
    /\ variant_data = <<>>
    /\ front_id = None
    /\ back_id = None
    /\ up = Idle
    /\ nextId = 1
    /\ requests = <<>>
    /\ skipped = {}
    /\ history = <<>>
    /\ variant_rows = <<>>
    /\ remote_called = FALSE
    /\ calls = <<>>
    /\ row_posts = 0
    /\ \E u \in UNION { [1..n -> UrlTokens] : n \in 0..MaxUrlLen } :
          conv = [arg |-> u, rets |-> <<>>]

\* lines 16-23, called on the argument, then on the value it returned
Convert ==
    /\ pc = "convert"
    /\ Len(conv.rets) < 2
    /\ conv.rets # <<>> => ~conv.rets[1].raised
    /\ LET url == IF conv.rets = <<>> THEN conv.arg ELSE conv.rets[1].value IN
       conv' = [conv EXCEPT !.rets = Append(@, convert_drive_url(url))]
    /\ UNCHANGED <<file_path, table, pc, error, grouped, gi, ri, variant_data,
                   front_id, back_id, up, nextId, requests, skipped, history,
                   variant_rows, remote_called, calls, row_posts>>

NextUrl == Convert

SpecUrl == InitUrl /\ [][NextUrl]_vars

\* the sharing-link shape: the drive host and the shared-file path segment
SharingShape(url) == Contains(url, DriveHost) /\ Contains(url, FileD)

\* the tokens of s from position i up to the next "/" or the end
RECURSIVE UpToSlash(_, _)
UpToSlash(s, i) ==
    IF i > Len(s) \/ s[i] = "/" THEN <<>> ELSE <<s[i]>> \o UpToSlash(s, i + 1)

\* the file identifier embedded after the first /file/d/
EmbeddedId(url) == UpToSlash(url, Find(url, SlashFileD) + Len(SlashFileD))

\* C12: convert_drive_url never raises; an input of the sharing-link shape
\* is rewritten to the direct-download form with the same embedded file
\* identifier, every other input is returned unchanged.
C12_ConvertTotal ==
    conv.rets # <<>> =>
        /\ ~conv.rets[1].raised
        /\ IF SharingShape(conv.arg)
           THEN conv.rets[1].value = DirectPrefix \o EmbeddedId(conv.arg)
           ELSE conv.rets[1].value = conv.arg

\* C13: where convert_drive_url returns, applying it to its result returns
\* that result again.
C13_ConvertIdempotent ==
    Len(conv.rets) = 2 =>
        /\ ~conv.rets[2].raised
        /\ conv.rets[2].value = conv.rets[1].value

\* a sharing link was rewritten and the rewritten link converted again
C13_Witness ==
    /\ Len(conv.rets) = 2
    /\ conv.arg = <<"drive.google.com", "/", "file", "/", "d", "/", "x">>
    /\ conv.rets[1].value = DirectPrefix \o <<"x">>

C15_ProductMetadata ==
    \A i \in 1..Len(requests) :
        LET name == table[grouped[requests[i].group].rows[1]].name
            pid == table[grouped[requests[i].group].rows[1]].pid.v
            sp == requests[i].payload.sync_product IN
        /\ sp.name = name
        /\ sp.is_visible
        /\ sp.external_id =
              <<name, "-">> \o (IF pid = 100 THEN <<"1", "0", "0">> ELSE <<"2", "0", "0">>)

\* a numeric column of the row holds a value int() rejects
BadNumber(row) == row.pid.kind = "bad" \/ row.variant.kind = "bad"

\* C16: a row whose PRODUCT ID or Variant cannot be coerced to an integer is
\* a row-level error: when the run has ended (other than by an exception of
\* a product-creation call) that row was skipped and every other row was
\* processed.
C16_BadNumberSkipsRow ==
    (pc \in {"done", "aborted"} /\ error \notin FailKinds) =>
        \A r \in 1..Len(table) :
            IF BadNumber(table[r])
            THEN history[r].fate = "skipped"
            ELSE history[r].fate \in {"appended", "skipped"}

\* C17: for every retry bound, 0 and negative included, upload_image either
\* returns an identifier taken from a successful remote response or raises;
\* it never returns without an identifier.
C17_ReturnsIdOrRaises ==
    (pc = "upload" /\ up.status = "returned") =>
        /\ up.result # None
        /\ Posts # <<>>
        /\ up.result = Posts[Len(Posts)].resp

Rank(ref) == IF ref = "front" THEN 1 ELSE IF ref = "back" THEN 2 ELSE 3

FileCalls == {i \in 1..Len(calls) : calls[i].kind = "file"}

\* C18: within a row the uploads are attempted in the order front, back,
\* label and the chain stops at the first upload that fails: no call for
\* the back reference unless the front upload returned an identifier, none
\* for the label reference unless front and back both did.
C18_ChainOrder ==
    /\ \A r \in 1..Len(history) :
          /\ "back" \in history[r].started =>
                "front" \in history[r].started /\ history[r].front # None
          /\ "label" \in history[r].started =>
                /\ "back" \in history[r].started
                /\ history[r].front # None
                /\ history[r].back # None
    /\ \A i \in FileCalls :
          /\ calls[i].ref \in history[calls[i].row].started
          /\ calls[i].ref = "back" => history[calls[i].row].front # None
          /\ calls[i].ref = "label" =>
                history[calls[i].row].front # None /\ history[calls[i].row].back # None
          /\ \A j \in FileCalls :
                (i < j /\ calls[i].row = calls[j].row) =>
                    Rank(calls[i].ref) < Rank(calls[j].ref)

\* one row was uploaded front, back, label in that order, and another row
\* lost its front upload after calls to the service and had no further call
C18_Witness ==
    /\ \E i \in 1..Len(calls) :
          /\ i + 2 <= Len(calls)
          /\ calls[i].ref = "front"
          /\ calls[i + 1] = [calls[i] EXCEPT !.ref = "back"]
          /\ calls[i + 2] = [calls[i] EXCEPT !.ref = "label"]
    /\ \E r \in 1..Len(history) :
          /\ history[r].fate = "skipped"
          /\ history[r].front = None
          /\ \E i \in FileCalls : calls[i].row = r /\ calls[i].ref = "front"
          /\ \A i \in FileCalls : calls[i].row = r => calls[i].ref = "front"

\* C19: remote calls are sequenced by group: the groups are handled in the
\* order of their first row in the source, every upload call for a row of
\* a group comes before that group's product-creation call, and that call
\* comes before any upload call for a row of a later group.
C19_SequencedByGroup ==
    /\ \A g, h \in 1..Len(grouped) :
          g < h => grouped[g].rows[1] < grouped[h].rows[1]
    /\ \A i \in 1..Len(calls) :
          /\ calls[i].group \in 1..Len(grouped)
          /\ calls[i].kind = "file" =>
                calls[i].row \in Range(grouped[calls[i].group].rows)
          /\ \A j \in 1..Len(calls) :
                i < j =>
                   /\ calls[i].group <= calls[j].group
                   /\ calls[i].kind = "product" => calls[i].group < calls[j].group

\* uploads and product creation of the first group, then uploads and
\* product creation of the second
C19_Witness ==
    /\ Len(calls) >= 4
    /\ calls[1].kind = "file" /\ calls[1].group = 1
    /\ \E i, j, k \in 1..Len(calls) :
          /\ i < j /\ j < k
          /\ calls[i] = ProductCall(1)
          /\ calls[j].kind = "file" /\ calls[j].group = 2
          /\ calls[k] = ProductCall(2)

Terminated == pc \in {"done", "aborted"}

\* Steps an upload in progress can still take: its remaining attempts and
\* the step that takes up its result.
UploadLeft ==
    IF up.status = "attempt" THEN (up.retries - up.attempt + 1) + 1 ELSE 1

\* Steps a whole row can take: its start and three uploads.
RowSteps == 1 + 3 * (DefaultRetries + 1)

\* Steps the row in progress can still take.
RowLeft ==
    IF pc = "front" THEN 2 * (DefaultRetries + 1) + UploadLeft
    ELSE IF pc = "back" THEN (DefaultRetries + 1) + UploadLeft
    ELSE IF pc = "label" THEN UploadLeft
    ELSE 0

RECURSIVE LaterGroups(_)
LaterGroups(g) ==
    IF g > Len(grouped) THEN 0
    ELSE Len(grouped[g].rows) * RowSteps + 1 + LaterGroups(g + 1)

\* An upper bound on the steps the run can still take.
StepsLeft ==
    IF Terminated THEN 0
    ELSE IF pc = "start" THEN 2 + MaxRows * (RowSteps + 1)
    ELSE IF gi > Len(grouped) THEN 1
    ELSE 1 + LaterGroups(gi + 1) + 1
           + (Len(CurRows) - ri + (IF pc = "row" THEN 1 ELSE 0)) * RowSteps
           + RowLeft

\* C20: every run of process_file terminates (every step lowers the
\* natural number StepsLeft, which is 0 exactly when the run has ended, so
\* no run goes on for ever), with at most 3 x retries file-registration
\* calls for any row and at most one product-creation call for any group.
C20_Terminates ==
    /\ [](/\ row_posts <= 3 * DefaultRetries
          /\ \A g \in 1..Len(grouped) : Cardinality(CallsFor(g)) <= 1
          /\ StepsLeft \in Nat
          /\ StepsLeft = 0 <=> Terminated)
    /\ [][StepsLeft' < StepsLeft]_vars

\* the run ended after a row that took all 3 x retries calls
C20_Witness ==
    /\ pc = "done"
    /\ row_posts = 3 * DefaultRetries
    /\ requests # <<>>
====
